---- MODULE Spec2Model ----
(***************************************************************************)
(* ERA5 precipitation retrieval (script/get_Total_Rain_from_EPA5.py).      *)
(*                                                                         *)
(* The model follows one output directory (data/<input stem>/) through a   *)
(* sequence of invocations of main(): each invocation builds an            *)
(* ERA5RainRetriever, then either only calls check_missing_locations       *)
(* (--dry-run) or runs process_locations.  The process can be killed at    *)
(* any step; what it has written to disk stays.                            *)
(*                                                                         *)
(* Units.  Coordinates are integers in 1e-5 degree (43.06210 -> 4306210);   *)
(* a cell that is not a number is NonNumeric, and the text of the number x  *)
(* in a column of strings is NonNumeric + x.                                *)
(* Pool coordinates never end in the digit 5, so the ':.4f' format has no  *)
(* tie to break.  Precipitation is an integer; the artifact's raw 'tp' is  *)
(* an integer and the unit conversion multiplies it as the code does.      *)
(* Floating-point rounding of sums is not modelled.                        *)
(* An artifact holds one grid cell: the 1-D and the 3-D branch of          *)
(* process_precipitation_data then read the same series.                   *)
(***************************************************************************)
EXTENDS Integers, Sequences, FiniteSets, TLC

\* Bounds of the model.
MaxPoints == 2
MaxRuns == 2

\* Program constants.
MESH_SIZE_KM == 20
DefaultYear == 2010
DebugRows == 5
Months == 12
NonNumeric == -1000000000

OtherYear == DefaultYear + 1
Years == {DefaultYear, OtherYear}

NoFile == <<[nofile |-> TRUE]>>

(***************************************************************************)
(* Sequence helpers                                                        *)
(***************************************************************************)
Range(s) == {s[i] : i \in 1..Len(s)}

SeqsUpTo(S, n) == UNION {[1..k -> S] : k \in 0..n}

RECURSIVE Flatten(_)
Flatten(ss) == IF ss = <<>> THEN <<>> ELSE Head(ss) \o Flatten(Tail(ss))

RECURSIVE SumSeq(_)
SumSeq(s) == IF s = <<>> THEN 0 ELSE Head(s) + SumSeq(Tail(s))

Take(s, n) == SubSeq(s, 1, IF Len(s) < n THEN Len(s) ELSE n)

Get(row, col, default) == IF col \in DOMAIN row THEN row[col] ELSE default

(***************************************************************************)
(* Input tables: what pd.read_csv returns for the input file.              *)
(***************************************************************************)
MkRow(no, lat, lon, name) ==
    [No |-> no, lat1 |-> lat, lon1 |-> lon, location_name |-> name]

P0 == MkRow(0, 4306210, 14135440, "Sapporo")
P1 == MkRow(1, 4306230, 14135450, "Sapporo2")
P2 == MkRow(2, 4306212, 14135441, "Sapporo3")
P3 == MkRow(3, NonNumeric, 14135440, "Broken")

PointPool == {P0, P1, P2, P3}

CanonColumns == <<"No", "lat1", "lon1", "location_name">>
AltColumns == <<"id", "latitude", "longitude", "name">>
NoLatColumns == <<"No", "lon1">>

AltRow(p) ==
    [id |-> p.No, latitude |-> p.lat1, longitude |-> p.lon1, name |-> p.location_name]

NoLatRow(p) == [No |-> p.No, lon1 |-> p.lon1]

\* A cell that is not a number, and the text of a number x in a column that
\* holds such a cell (x >= 0 in the pool).
IsNumber(v) == v > NonNumeric \div 2
AsText(v) == IF IsNumber(v) THEN NonNumeric + v ELSE v

CoordColumns == {"lat1", "lon1", "latitude", "longitude"}

\* pd.read_csv: a coordinate column in which some cell is not a number is a
\* column of strings, every cell of it.
read_csv(columns, rows) ==
    LET object(c) ==
            c \in CoordColumns /\ \E j \in 1..Len(rows) : ~IsNumber(rows[j][c])
    IN  [columns |-> columns,
         rows |-> [j \in 1..Len(rows) |->
            [c \in DOMAIN rows[j] |->
                IF object(c) THEN AsText(rows[j][c]) ELSE rows[j][c]]]]

CanonTable(rows) == read_csv(CanonColumns, rows)
AltTable(rows) == read_csv(AltColumns, [j \in 1..Len(rows) |-> AltRow(rows[j])])
NoLatTable(rows) == read_csv(NoLatColumns, [j \in 1..Len(rows) |-> NoLatRow(rows[j])])

\* Every table of at most MaxPoints rows of the pool, and the header variants.
BatchTables ==
    {CanonTable(s) : s \in SeqsUpTo(PointPool, MaxPoints)}
        \cup {AltTable(<<>>), AltTable(<<P0>>), NoLatTable(<<P0>>)}

\* The tables followed through several invocations: no row, one row, two cells,
\* two points of one cell, one row twice, a row without a latitude first, and
\* the header variants.
ResumeTables ==
    {CanonTable(<<>>), CanonTable(<<P0>>), CanonTable(<<P0, P1>>),
     CanonTable(<<P0, P2>>), CanonTable(<<P0, P0>>), CanonTable(<<P3, P0>>),
     AltTable(<<>>), AltTable(<<P0>>), NoLatTable(<<P0>>)}

Columns(df) == Range(df.columns)

(***************************************************************************)
(* MeshIndexer                                                             *)
(***************************************************************************)
\* cos(lat) in thousandths, for the latitudes of the pool (43 degrees).
CosMilli(lat) == IF lat \div 100000 = 43 THEN 731 ELSE 1000

\* Raises TypeError (np.radians of a str) when lat is not a number.
calculate_mesh_bounds_raises(lat, lon) == ~IsNumber(lat) \/ ~IsNumber(lon)

calculate_mesh_bounds(lat, lon) ==
    LET half_size_lat == ((MESH_SIZE_KM * 100000) \div 2) \div 111
        half_size_lon == (((MESH_SIZE_KM * 100000) \div 2) * 1000) \div (111 * CosMilli(lat))
    IN  <<lat + half_size_lat, lon - half_size_lon, lat - half_size_lat, lon + half_size_lon>>

\* f"{x:.4f}": x in 1e-5 degree to the nearest 1e-4 degree.
Fmt4(x) == IF x >= 0 THEN (x + 5) \div 10 ELSE 0 - ((5 - x) \div 10)

get_mesh_id_raises(lat, lon) == calculate_mesh_bounds_raises(lat, lon)

get_mesh_id(lat, lon) == <<Fmt4(lat), Fmt4(lon), "20km">>

\* Root-level draft: round to the grid centroid (0.27 x 0.37 degree cells).
GRID_LAT_DELTA == 27000
GRID_LON_DELTA == 37000

RoundDiv(x, d) == (2 * x + d) \div (2 * d)

draft_get_mesh_id(lat, lon) ==
    <<(RoundDiv(lat, GRID_LAT_DELTA) * GRID_LAT_DELTA) \div 100,
      (RoundDiv(lon, GRID_LON_DELTA) * GRID_LON_DELTA) \div 100>>

(***************************************************************************)
(* The external service and the Aggregator                                 *)
(***************************************************************************)
\* Raw 'tp' the service returns for month m of year y.
ServiceTp(y, m) == (y - DefaultYear + 1) * m

\* Artifacts a retrieve can leave at the canonical path.
GoodArtifact(y) ==
    [year |-> y, readable |-> TRUE, hasTp |-> TRUE,
     tp |-> [m \in 1..Months |-> ServiceTp(y, m)]]
NoTpArtifact(y) == [year |-> y, readable |-> TRUE, hasTp |-> FALSE, tp |-> <<>>]
PartialArtifact(y) == [year |-> y, readable |-> FALSE, hasTp |-> FALSE, tp |-> <<>>]

\* An artifact with fewer time steps than the months asked for (the service
\* holds only part of the year).
ShortMonths == 6
ShortArtifact(y) ==
    [year |-> y, readable |-> TRUE, hasTp |-> TRUE,
     tp |-> [m \in 1..ShortMonths |-> ServiceTp(y, m)]]

\* What a retrieve that returns can have written, by kind.
Artifact(kind, y) ==
    CASE kind = "good" -> GoodArtifact(y)
      [] kind = "notp" -> NoTpArtifact(y)
      [] kind = "short" -> ShortArtifact(y)

FullYearKinds == {"good", "notp"}
AllKinds == {"good", "notp", "short"}

\* xr.open_dataset raises on a truncated file, ds['tp'] raises KeyError.
process_precipitation_data_raises(art) == ~art.readable \/ ~art.hasTp

\* The annual value computed on its own, from the raw series with a daily
\* rate over 365 days.
process_precipitation_data_indep(art) ==
    LET monthly_precip == [m \in 1..Len(art.tp) |-> art.tp[m] * 1000 * 24 * 30]
    IN  [monthly |-> monthly_precip, annual |-> SumSeq(art.tp) * 1000 * 24 * 365]

process_precipitation_data(art) ==
    LET monthly_precip == [m \in 1..Len(art.tp) |-> art.tp[m] * 1000 * 24 * 30]
    IN  [monthly |-> monthly_precip, annual |-> SumSeq(monthly_precip)]

(***************************************************************************)
(* ResultStore                                                             *)
(***************************************************************************)
MonthName == <<"1", "2", "3", "4", "5", "6", "7", "8", "9", "10", "11", "12">>

\* The rows save_results puts in 'data': one per month, then 'Annual'.
PointRows(res, location) ==
    [m \in 1..Len(res.monthly) |->
        [No |-> location["No"], Latitude |-> location["lat1"],
         Longitude |-> location["lon1"],
         Location |-> Get(location, "location_name", ""),
         Month |-> MonthName[m], Precip |-> res.monthly[m]]]
    \o <<[No |-> location["No"], Latitude |-> location["lat1"],
          Longitude |-> location["lon1"],
          Location |-> Get(location, "location_name", ""),
          Month |-> "Annual", Precip |-> res.annual]>>

\* The rows save_results appends to self.all_results.
BufferedRows(res, location, year) ==
    [m \in 1..Len(res.monthly) |->
        [No |-> location["No"], Latitude |-> location["lat1"],
         Longitude |-> location["lon1"],
         Location |-> Get(location, "location_name", ""),
         Month |-> MonthName[m], Year |-> year, Precip |-> res.monthly[m]]]

GroupKey(r) ==
    [No |-> r.No, Latitude |-> r.Latitude, Longitude |-> r.Longitude,
     Location |-> r.Location, Year |-> r.Year]

KeyLess(a, b) ==
    \/ a.No < b.No
    \/ a.No = b.No /\ a.Latitude < b.Latitude
    \/ a.No = b.No /\ a.Latitude = b.Latitude /\ a.Longitude < b.Longitude

RECURSIVE SortKeys(_)
SortKeys(S) ==
    IF S = {} THEN <<>>
    ELSE LET k == CHOOSE x \in S : \A o \in S : ~KeyLess(o, x)
         IN  <<k>> \o SortKeys(S \ {k})

RECURSIVE GroupSum(_, _)
GroupSum(rows, k) ==
    IF rows = <<>> THEN 0
    ELSE (IF GroupKey(Head(rows)) = k THEN Head(rows).Precip ELSE 0)
            + GroupSum(Tail(rows), k)

IsMonthly(r) == r.Month # "Annual"

\* The DataFrame save_all_results writes: the monthly rows, then one 'Annual'
\* row per group of (No, Latitude, Longitude, Location, Year), summed.
CombinedRows(results) ==
    LET monthly_df == SelectSeq(results, IsMonthly)
        keys == SortKeys({GroupKey(monthly_df[j]) : j \in 1..Len(monthly_df)})
        annual_df == [j \in 1..Len(keys) |->
            [No |-> keys[j].No, Latitude |-> keys[j].Latitude,
             Longitude |-> keys[j].Longitude, Location |-> keys[j].Location,
             Year |-> keys[j].Year, Precip |-> GroupSum(monthly_df, keys[j]),
             Month |-> "Annual"]]
    IN  monthly_df \o annual_df

(***************************************************************************)
(* ProgressTracker: check_missing_locations                                *)
(***************************************************************************)
Exists(files, key) == key \in DOMAIN files

\* row['No'] is read for every row; row['lat1'], row['lon1'] only for a row
\* whose output file exists.  A missing column raises KeyError.
check_missing_raises(input_df, csvdir) ==
    /\ Len(input_df.rows) > 0
    /\ \/ "No" \notin Columns(input_df)
       \/ \E j \in 1..Len(input_df.rows) :
            /\ Exists(csvdir, input_df.rows[j]["No"])
            /\ ~({"lat1", "lon1"} \subseteq Columns(input_df))

processed_locations(input_df, csvdir) ==
    LET has(row) == Exists(csvdir, row["No"])
        done == SelectSeq(input_df.rows, has)
    IN  [j \in 1..Len(done) |->
            [No |-> done[j]["No"], lat1 |-> done[j]["lat1"], lon1 |-> done[j]["lon1"]]]

\* input_df.merge(processed_df, on=[No, lat1, lon1], how='left', indicator=True)
MergeLeft(rows, processed) ==
    LET matches(row) ==
            SelectSeq(processed, LAMBDA p :
                p.No = row["No"] /\ p.lat1 = row["lat1"] /\ p.lon1 = row["lon1"])
        joined(row) ==
            IF matches(row) = <<>>
            THEN <<[row |-> row, merge |-> "left_only"]>>
            ELSE [j \in 1..Len(matches(row)) |-> [row |-> row, merge |-> "both"]]
    IN  Flatten([j \in 1..Len(rows) |-> joined(rows[j])])

\* The DataFrame check_missing_locations returns.
check_missing_locations(input_df, csvdir) ==
    LET processed == processed_locations(input_df, csvdir)
        merged == MergeLeft(input_df.rows, processed)
        left_only == SelectSeq(merged, LAMBDA x : x.merge = "left_only")
    IN  IF processed # <<>>
        THEN [columns |-> input_df.columns,
              rows |-> [j \in 1..Len(left_only) |-> left_only[j].row]]
        ELSE input_df

\* The ids check_missing_locations collects in processed_locations (lines
\* 241-249), none when the call raises.
processed_ids(input_df, csvdir) ==
    IF check_missing_raises(input_df, csvdir)
    THEN {}
    ELSE {input_df.rows[j]["No"] : j \in {n \in 1..Len(input_df.rows) :
                                            Exists(csvdir, input_df.rows[n]["No"])}}

\* missing_locations.csv after the call: rewritten only when rows are missing.
missing_report(input_df, csvdir, old) ==
    LET missing_df == check_missing_locations(input_df, csvdir)
    IN  IF Len(missing_df.rows) > 0 THEN missing_df.rows ELSE old

\* An existence test that creates the file it looks for.
csv_after_check_touch(input_df, csvdir) ==
    [k \in DOMAIN csvdir \cup {input_df.rows[j]["No"] : j \in 1..Len(input_df.rows)} |->
        IF k \in DOMAIN csvdir THEN csvdir[k] ELSE <<>>]

\* The point-scoped outputs after the call: the call only tests existence.
csv_after_check(input_df, csvdir) == csvdir

(***************************************************************************)
(* process_locations: header normalisation                                 *)
(***************************************************************************)
header_mapping ==
    [No |-> <<"No", "no", "ID", "id", "index">>,
     lat1 |-> <<"lat1", "lat", "latitude", "Latitude", "LAT">>,
     lon1 |-> <<"lon1", "lon", "longitude", "Longitude", "LON">>]

RequiredCols == <<"No", "lat1", "lon1">>

\* The first of the accepted names that is a column of df, or "" for None.
found_col(df, required_col) ==
    LET names == header_mapping[required_col]
        hits == SelectSeq(names, LAMBDA n : n \in Columns(df))
    IN  IF hits = <<>> THEN "" ELSE Head(hits)

validate_raises(df) == \E c \in Range(RequiredCols) : found_col(df, c) = ""

NewName(df, col) ==
    IF \E c \in Range(RequiredCols) : found_col(df, c) = col
    THEN CHOOSE c \in Range(RequiredCols) : found_col(df, c) = col
    ELSE col

RenameRow(df, row) ==
    [c \in {NewName(df, o) : o \in DOMAIN row} |->
        row[CHOOSE o \in DOMAIN row : NewName(df, o) = c]]

\* df.rename(columns=column_mapping), then df.head(5) in debug mode.
standardize(df, debug) ==
    LET renamed == [columns |-> [j \in 1..Len(df.columns) |-> NewName(df, df.columns[j])],
                    rows |-> [j \in 1..Len(df.rows) |-> RenameRow(df, df.rows[j])]]
    IN  IF debug THEN [renamed EXCEPT !.rows = Take(renamed.rows, DebugRows)]
        ELSE renamed

\* The two modes conflated: whatever is missing is the work-set.
plan_workset_conflated(resume, missing_df, input_df) == missing_df

\* Lines 303-308: the table the run works on.
plan_workset(resume, missing_df, input_df) ==
    IF ~resume /\ Len(missing_df.rows) < Len(input_df.rows)
    THEN input_df
    ELSE missing_df

(***************************************************************************)
(* State                                                                   *)
(***************************************************************************)
VARIABLES
    input,              \* the input file, as read_csv returns it
    netcdf,             \* data/<stem>/netcdf: mesh id -> artifact
    csv,                \* data/<stem>/csv: location No -> rows of precip_location_<No>.csv
    combined,           \* data/<stem>/csv: year -> rows of precipitation_results_<year>.csv
    missing_file,       \* data/<stem>/missing_locations.csv: rows, or NoFile
    pc,                 \* where the process is; "idle" when no process runs
    args,               \* year, resume, debug, dry_run of the running invocation
    df,                 \* process_locations' df
    i,                  \* position of the loop in df (1-based)
    mesh_id,            \* loop local
    results,            \* loop local
    processed_meshes,   \* self.processed_meshes: mesh id -> artifact path
    all_results,        \* self.all_results
    retrieveLog,        \* history: the c.retrieve calls of this run, with their outcome
    flushCalls,         \* history: calls of save_all_results in this run
    outcome,            \* history: per row of df, how its iteration ended
    runLog              \* history: the invocations that ended, oldest first

disk == <<netcdf, csv, combined, missing_file>>
history == <<retrieveLog, flushCalls, outcome>>
vars == <<input, netcdf, csv, combined, missing_file, pc, args, df, i, mesh_id,
          results, processed_meshes, all_results, retrieveLog, flushCalls, outcome,
          runLog>>

NoArgs == [year |-> DefaultYear, resume |-> FALSE, debug |-> FALSE, dry_run |-> FALSE]
EmptyDf == [columns |-> <<>>, rows |-> <<>>]
NoMesh == <<0, 0, "">>
NoResults == [monthly |-> <<>>, annual |-> 0]

\* base_dir / 'netcdf' / f'precip_{mesh_id}.nc'
output_file(m) == m

\* base_dir / 'csv' / f"precip_location_{location['No']}.csv"
location_file(location) == location["No"]

Put(f, k, v) == [x \in DOMAIN f \cup {k} |-> IF x = k THEN v ELSE f[x]]

InitWith(tables) ==
    /\ input \in tables
    /\ netcdf = <<>>
    /\ csv = <<>>
    /\ combined = <<>>
    /\ missing_file = NoFile
    /\ pc = "idle"
    /\ args = NoArgs
    /\ df = EmptyDf
    /\ i = 0
    /\ mesh_id = NoMesh
    /\ results = NoResults
    /\ processed_meshes = <<>>
    /\ all_results = <<>>
    /\ retrieveLog = <<>>
    /\ flushCalls = 0
    /\ outcome = <<>>
    /\ runLog = <<>>

Init == InitWith(ResumeTables)

InitBatch == InitWith(BatchTables)

Failures(o) == Cardinality({j \in 1..Len(o) : o[j] \notin {"pending", "ok"}})

\* The process ends: its memory is gone, the disk stays.  The history of the run
\* is summed up in runLog.
EndWith(how, flushes) ==
    /\ pc' = "idle"
    /\ runLog' = Append(runLog,
            [year |-> args.year, resume |-> args.resume, dry_run |-> args.dry_run,
             end |-> how, in_save |-> (pc = "writing"),
             failed |-> (Failures(outcome) > 0), flushes |-> flushes])
    /\ args' = NoArgs
    /\ df' = EmptyDf
    /\ i' = 0
    /\ mesh_id' = NoMesh
    /\ results' = NoResults
    /\ processed_meshes' = <<>>
    /\ all_results' = <<>>
    /\ retrieveLog' = <<>>
    /\ flushCalls' = 0
    /\ outcome' = <<>>

End(how) == EndWith(how, flushCalls)

\* main(): parse the arguments, construct the retriever (lines 421-424, 23-34).
Main(y, r, d, dry, maxRuns) ==
    /\ pc = "idle"
    /\ Len(runLog) < maxRuns
    /\ args' = [year |-> y, resume |-> r, debug |-> d, dry_run |-> dry]
    /\ processed_meshes' = <<>>
    /\ all_results' = <<>>
    /\ pc' = "check"
    /\ UNCHANGED <<input, disk, df, i, mesh_id, results, history, runLog>>

\* check_missing_locations called without regard to --dry-run: the run goes
\* on to process_locations.
CheckMissing_NoDryRun ==
    /\ pc = "check"
    /\ IF check_missing_raises(input, csv)
       THEN /\ End("error")
            /\ UNCHANGED disk
       ELSE /\ missing_file' = missing_report(input, csv, missing_file)
            /\ csv' = csv_after_check(input, csv)
            /\ UNCHANGED <<netcdf, combined>>
            /\ df' = check_missing_locations(input, csv)
            /\ pc' = "plan"
            /\ UNCHANGED <<args, i, mesh_id, results, processed_meshes,
                           all_results, history, runLog>>
    /\ UNCHANGED input

\* check_missing_locations, called by main (dry run) or by process_locations.
CheckMissing ==
    /\ pc = "check"
    /\ IF check_missing_raises(input, csv)
       THEN /\ End("error")
            /\ UNCHANGED disk
       ELSE /\ missing_file' = missing_report(input, csv, missing_file)
            /\ csv' = csv_after_check(input, csv)
            /\ UNCHANGED <<netcdf, combined>>
            /\ IF args.dry_run
               THEN End("dry_run")
               ELSE /\ df' = check_missing_locations(input, csv)
                    /\ pc' = "plan"
                    /\ UNCHANGED <<args, i, mesh_id, results, processed_meshes,
                                   all_results, history, runLog>>
    /\ UNCHANGED input

\* process_locations lines 303-312: choose the work-set, return when it is empty.
Plan ==
    /\ pc = "plan"
    /\ LET workset == plan_workset(args.resume, df, input) IN
       IF Len(workset.rows) = 0
       THEN End("nothing")
       ELSE /\ df' = workset
            /\ pc' = "validate"
            /\ UNCHANGED <<args, i, mesh_id, results, processed_meshes, all_results,
                           history, runLog>>
    /\ UNCHANGED <<input, disk>>

\* process_locations lines 314-348: header check, rename, debug truncation.
Validate ==
    /\ pc = "validate"
    /\ IF validate_raises(df)
       THEN End("error")
       ELSE /\ df' = standardize(df, args.debug)
            /\ i' = 1
            /\ outcome' = [j \in 1..Len(df'.rows) |-> "pending"]
            /\ pc' = "loop"
            /\ UNCHANGED <<args, mesh_id, results, processed_meshes, all_results,
                           retrieveLog, flushCalls, runLog>>
    /\ UNCHANGED <<input, disk>>

\* The except and finally clauses of the loop body (lines 370-380), and its
\* normal end: note how the row ended, go on with the next row.
except_break(kind) ==
    /\ outcome' = [outcome EXCEPT ![i] = kind]
    /\ i' = IF kind = "ok" THEN i + 1 ELSE Len(df.rows) + 1
    /\ pc' = "loop"

\* The except clause that leaves the loop position where it is: the row
\* that failed is taken up again.
except_retry(kind) ==
    /\ outcome' = [outcome EXCEPT ![i] = kind]
    /\ i' = IF kind = "ok" THEN i + 1 ELSE i
    /\ pc' = "loop"

except_continue(kind) ==
    /\ outcome' = [outcome EXCEPT ![i] = kind]
    /\ i' = i + 1
    /\ pc' = "loop"

NextRow(kind) ==
    /\ except_continue(kind)
    /\ mesh_id' = NoMesh
    /\ results' = NoResults

\* Resolve without the two cache lookups: every row goes to c.retrieve.
Resolve_NoCache ==
    /\ pc = "loop"
    /\ i <= Len(df.rows)
    /\ LET location == df.rows[i] IN
       IF get_mesh_id_raises(location["lat1"], location["lon1"])
       THEN /\ NextRow("mesh")
            /\ UNCHANGED <<processed_meshes, retrieveLog>>
       ELSE /\ mesh_id' = get_mesh_id(location["lat1"], location["lon1"])
            /\ retrieveLog' = Append(retrieveLog, [mesh |-> mesh_id', ok |-> FALSE])
            /\ pc' = "retrieve"
            /\ UNCHANGED <<i, outcome, results, processed_meshes>>
    /\ UNCHANGED <<input, disk, args, df, all_results, flushCalls, runLog>>

\* Resolve without the test for an artifact on disk: a mesh that is not in
\* processed_meshes goes to c.retrieve.
Resolve_NoDiskCheck ==
    /\ pc = "loop"
    /\ i <= Len(df.rows)
    /\ LET location == df.rows[i] IN
       IF get_mesh_id_raises(location["lat1"], location["lon1"])
       THEN /\ NextRow("mesh")
            /\ UNCHANGED <<processed_meshes, retrieveLog>>
       ELSE /\ mesh_id' = get_mesh_id(location["lat1"], location["lon1"])
            /\ UNCHANGED <<i, outcome, results, processed_meshes>>
            /\ IF mesh_id' \in DOMAIN processed_meshes
               THEN /\ pc' = "process"
                    /\ UNCHANGED retrieveLog
               ELSE /\ retrieveLog' = Append(retrieveLog, [mesh |-> mesh_id', ok |-> FALSE])
                    /\ pc' = "retrieve"
    /\ UNCHANGED <<input, disk, args, df, all_results, flushCalls, runLog>>

\* Lines 352-363 and download_era5_data up to the retrieve call (lines 104-123):
\* the row's mesh id; a mesh of this run is reused, an artifact on disk is
\* registered and used, otherwise c.retrieve is called.
Resolve ==
    /\ pc = "loop"
    /\ i <= Len(df.rows)
    /\ LET location == df.rows[i] IN
       IF get_mesh_id_raises(location["lat1"], location["lon1"])
       THEN /\ NextRow("mesh")
            /\ UNCHANGED <<processed_meshes, retrieveLog>>
       ELSE /\ mesh_id' = get_mesh_id(location["lat1"], location["lon1"])
            /\ UNCHANGED <<i, outcome, results>>
            /\ IF mesh_id' \in DOMAIN processed_meshes
               THEN /\ pc' = "process"
                    /\ UNCHANGED <<processed_meshes, retrieveLog>>
               ELSE IF Exists(netcdf, output_file(mesh_id'))
               THEN /\ processed_meshes' =
                        Put(processed_meshes, mesh_id', output_file(mesh_id'))
                    /\ pc' = "process"
                    /\ UNCHANGED retrieveLog
               ELSE /\ retrieveLog' = Append(retrieveLog, [mesh |-> mesh_id', ok |-> FALSE])
                    /\ pc' = "retrieve"
                    /\ UNCHANGED processed_meshes
    /\ UNCHANGED <<input, disk, args, df, all_results, flushCalls, runLog>>

\* c.retrieve returns: the artifact is at the canonical path, the mesh is registered
\* (lines 123-130, 363).
RetrieveOk(art) ==
    /\ pc = "retrieve"
    /\ netcdf' = Put(netcdf, output_file(mesh_id), art)
    /\ processed_meshes' = Put(processed_meshes, mesh_id, output_file(mesh_id))
    /\ retrieveLog' = [retrieveLog EXCEPT ![Len(retrieveLog)].ok = TRUE]
    /\ pc' = "process"
    /\ UNCHANGED <<input, csv, combined, missing_file, args, df, i, mesh_id, results,
                   all_results, flushCalls, outcome, runLog>>

\* A failed retrieve that leaves an empty output file for the point.
RetrieveFail_Placeholder(leftPartial) ==
    /\ pc = "retrieve"
    /\ netcdf' = IF leftPartial
                 THEN Put(netcdf, output_file(mesh_id), PartialArtifact(args.year))
                 ELSE netcdf
    /\ csv' = Put(csv, location_file(df.rows[i]), <<>>)
    /\ NextRow("fetch")
    /\ UNCHANGED <<input, combined, missing_file, args, df, processed_meshes,
                   all_results, retrieveLog, flushCalls, runLog>>

\* c.retrieve raises; the download may have left a partial file.
RetrieveFail(leftPartial) ==
    /\ pc = "retrieve"
    /\ netcdf' = IF leftPartial
                 THEN Put(netcdf, output_file(mesh_id), PartialArtifact(args.year))
                 ELSE netcdf
    /\ NextRow("fetch")
    /\ UNCHANGED <<input, csv, combined, missing_file, args, df, processed_meshes,
                   all_results, retrieveLog, flushCalls, runLog>>

\* process_precipitation_data (line 365) on nc_file.
Process ==
    /\ pc = "process"
    /\ LET art == netcdf[processed_meshes[mesh_id]] IN
       IF process_precipitation_data_raises(art)
       THEN NextRow("process")
       ELSE /\ results' = process_precipitation_data(art)
            /\ pc' = "save"
            /\ UNCHANGED <<i, outcome, mesh_id>>
    /\ UNCHANGED <<input, disk, args, df, processed_meshes, all_results, retrieveLog,
                   flushCalls, runLog>>

\* save_results up to the opening of the output file (lines 161-199): the rows are
\* buffered, then to_csv creates or truncates the file, or fails to open it.
SaveResults(openFails) ==
    /\ pc = "save"
    /\ all_results' = all_results \o BufferedRows(results, df.rows[i], args.year)
    /\ IF openFails
       THEN /\ NextRow("write")
            /\ UNCHANGED csv
       ELSE /\ csv' = Put(csv, location_file(df.rows[i]), <<>>)
            /\ pc' = "writing"
            /\ UNCHANGED <<i, outcome, mesh_id, results>>
    /\ UNCHANGED <<input, netcdf, combined, missing_file, args, df, processed_meshes,
                   retrieveLog, flushCalls, runLog>>

\* A to_csv that removes the file it could not finish.
WriteReturn_Cleanup(writeFails) ==
    /\ pc = "writing"
    /\ IF writeFails
       THEN /\ NextRow("write")
            /\ csv' = [k \in DOMAIN csv \ {location_file(df.rows[i])} |-> csv[k]]
       ELSE /\ csv' = Put(csv, location_file(df.rows[i]), PointRows(results, df.rows[i]))
            /\ NextRow("ok")
    /\ UNCHANGED <<input, netcdf, combined, missing_file, args, df, processed_meshes,
                   all_results, retrieveLog, flushCalls, runLog>>

\* to_csv writes and closes the file (line 199), or fails while writing.
WriteReturn(writeFails) ==
    /\ pc = "writing"
    /\ IF writeFails
       THEN /\ NextRow("write")
            /\ UNCHANGED csv
       ELSE /\ csv' = Put(csv, location_file(df.rows[i]), PointRows(results, df.rows[i]))
            /\ NextRow("ok")
    /\ UNCHANGED <<input, netcdf, combined, missing_file, args, df, processed_meshes,
                   all_results, retrieveLog, flushCalls, runLog>>

\* The loop is over, but save_all_results is called only when rows were buffered.
SaveAllResults_Guarded ==
    /\ pc = "loop"
    /\ i > Len(df.rows)
    /\ IF all_results # <<>>
       THEN /\ combined' = Put(combined, args.year, <<>>)
            /\ flushCalls' = flushCalls + 1
            /\ pc' = "flushing"
            /\ UNCHANGED <<args, df, i, mesh_id, results, processed_meshes, all_results,
                           retrieveLog, outcome, runLog>>
       ELSE /\ EndWith("done", flushCalls)
            /\ UNCHANGED combined
    /\ UNCHANGED <<input, netcdf, csv, missing_file>>

\* The loop is over: save_all_results is called (line 383); it opens the combined
\* file when something was buffered (lines 202-221).
SaveAllResults ==
    /\ pc = "loop"
    /\ i > Len(df.rows)
    /\ IF all_results # <<>>
       THEN /\ combined' = Put(combined, args.year, <<>>)
            /\ flushCalls' = flushCalls + 1
            /\ pc' = "flushing"
            /\ UNCHANGED <<args, df, i, mesh_id, results, processed_meshes, all_results,
                           retrieveLog, outcome, runLog>>
       ELSE /\ EndWith("done", flushCalls + 1)
            /\ UNCHANGED combined
    /\ UNCHANGED <<input, netcdf, csv, missing_file>>

\* to_csv of the combined file returns (line 222), or fails while writing.
FlushReturn(writeFails) ==
    /\ pc = "flushing"
    /\ IF writeFails
       THEN /\ End("error")
            /\ UNCHANGED combined
       ELSE /\ combined' = Put(combined, args.year, CombinedRows(all_results))
            /\ End("done")
    /\ UNCHANGED <<input, netcdf, csv, missing_file>>

\* The process is killed (Ctrl+C, SIGKILL, power loss).  A retrieve in flight may
\* have written part of the artifact.
Kill(leftPartial) ==
    /\ pc # "idle"
    /\ leftPartial => pc = "retrieve"
    /\ netcdf' = IF leftPartial
                 THEN Put(netcdf, output_file(mesh_id), PartialArtifact(args.year))
                 ELSE netcdf
    /\ End("killed")
    /\ UNCHANGED <<input, csv, combined, missing_file>>

\* One step of the system.  A dry run reads neither --resume nor --debug, so it
\* is started with both off.
Step(years, debugs, maxRuns, kinds) ==
    \/ \E y \in years, r \in BOOLEAN, d \in debugs : Main(y, r, d, FALSE, maxRuns)
    \/ \E y \in years : Main(y, FALSE, FALSE, TRUE, maxRuns)
    \/ CheckMissing
    \/ Plan
    \/ Validate
    \/ Resolve
    \/ \E k \in kinds : RetrieveOk(Artifact(k, args.year))
    \/ \E p \in BOOLEAN : RetrieveFail(p)
    \/ Process
    \/ \E f \in BOOLEAN : SaveResults(f)
    \/ \E f \in BOOLEAN : WriteReturn(f)
    \/ SaveAllResults
    \/ \E f \in BOOLEAN : FlushReturn(f)
    \/ \E p \in BOOLEAN : Kill(p)

\* Up to MaxRuns invocations, one after the other, for the default year.
Next == Step({DefaultYear}, {FALSE}, MaxRuns, FullYearKinds)

Spec == Init /\ [][Next]_vars

\* One invocation in a fresh directory, over every table of the pool.
NextBatch == Step({DefaultYear}, BOOLEAN, 1, FullYearKinds)

SpecBatch == InitBatch /\ [][NextBatch]_vars

\* One invocation in a fresh directory over the tables of one and of two
\* points, the service returning any kind of artifact.
ServiceTables == {CanonTable(<<P0>>), CanonTable(<<P0, P1>>), CanonTable(<<P0, P2>>)}

InitService == InitWith(ServiceTables)

NextService == Step({DefaultYear}, {FALSE}, 1, AllKinds)

SpecService == InitService /\ [][NextService]_vars

\* Up to MaxRuns invocations with any of the target years over one input
\* file of one point and one output directory.
YearTables == {CanonTable(<<P0>>)}

InitYears == InitWith(YearTables)

NextYears == Step(Years, {FALSE}, MaxRuns, {"good"})

SpecYears == InitYears /\ [][NextYears]_vars

\* The steps of the program itself: every call returns, the external retrieve
\* included, and the process goes on as long as it is not killed.
Progress ==
    \/ CheckMissing
    \/ Plan
    \/ Validate
    \/ Resolve
    \/ \E k \in FullYearKinds : RetrieveOk(Artifact(k, args.year))
    \/ \E p \in BOOLEAN : RetrieveFail(p)
    \/ Process
    \/ \E f \in BOOLEAN : SaveResults(f)
    \/ \E f \in BOOLEAN : WriteReturn(f)
    \/ SaveAllResults
    \/ \E f \in BOOLEAN : FlushReturn(f)

\* One invocation in a fresh directory over tables of one and of two rows.
LiveTables == ServiceTables \cup {CanonTable(<<P0, P0>>), CanonTable(<<P3, P0>>)}

InitLive == InitWith(LiveTables)

NextLive == Step({DefaultYear}, {FALSE}, 1, FullYearKinds)

SpecLive == InitLive /\ [][NextLive]_vars /\ WF_vars(Progress)

(***************************************************************************)
(* The root-level draft script (get_Total_Rain_from_EPA5.py at the root):  *)
(* one run in a fresh data directory.  Its files are keyed by location id: *)
(* netcdf holds precip_<year>_location_<id>.nc, csv holds                  *)
(* precip_location_<id>.csv, combined holds the aggregated CSV, and        *)
(* processed_meshes maps a mesh id to the first location of the mesh.      *)
(***************************************************************************)
DraftTables == {CanonTable(t) : t \in SeqsUpTo({P0, P1, P2}, MaxPoints)}

InitDraft == InitWith(DraftTables)

\* Lines 205-207 and 127-134: millimetres per month and their sum.
draft_results(art) ==
    LET monthly_precip == [m \in 1..Len(art.tp) |-> art.tp[m] * 1000]
    IN  [monthly |-> monthly_precip, annual |-> SumSeq(art.tp) * 1000]

\* The records save_intermediate_files writes and returns.
draft_rows(res, row) ==
    [m \in 1..Months |->
        [No |-> row["No"], Latitude |-> row["lat1"], Longitude |-> row["lon1"],
         Month |-> MonthName[m], Precip |-> res.monthly[m]]]
    \o <<[No |-> row["No"], Latitude |-> row["lat1"], Longitude |-> row["lon1"],
          Month |-> "Annual", Precip |-> res.annual]>>

\* The script starts: arguments, directories, read_csv, the first batch.
DraftStart ==
    /\ pc = "idle"
    /\ runLog = <<>>
    /\ args' = NoArgs
    /\ df' = input
    /\ i' = 1
    /\ outcome' = [j \in 1..Len(input.rows) |-> "pending"]
    /\ processed_meshes' = <<>>
    /\ all_results' = <<>>
    /\ pc' = "draft_row"
    /\ UNCHANGED <<input, disk, mesh_id, results, retrieveLog, flushCalls, runLog>>

\* 'continue' of the draft loop.
draft_continue(kind) ==
    /\ outcome' = [outcome EXCEPT ![i] = kind]
    /\ i' = i + 1
    /\ pc' = "draft_row"

\* Lines 192-198: the row's mesh id, and whether a location of the mesh
\* was processed before.
DraftRow ==
    /\ pc = "draft_row"
    /\ i <= Len(df.rows)
    /\ mesh_id' = draft_get_mesh_id(df.rows[i]["lat1"], df.rows[i]["lon1"])
    /\ pc' = IF mesh_id' \in DOMAIN processed_meshes THEN "draft_copy" ELSE "draft_try"
    /\ UNCHANGED <<input, disk, args, df, i, results, processed_meshes, all_results,
                   history, runLog>>

\* copy_mesh_data (lines 154-177, called at line 202): the artifact of the
\* first location is copied; any exception makes it return False, and the
\* row goes on to the try block.
DraftCopy(ok) ==
    /\ pc = "draft_copy"
    /\ IF ok
       THEN /\ netcdf' = Put(netcdf, df.rows[i]["No"], netcdf[processed_meshes[mesh_id]])
            /\ pc' = "draft_reuse"
       ELSE /\ UNCHANGED netcdf
            /\ pc' = "draft_try"
    /\ UNCHANGED <<input, csv, combined, missing_file, args, df, i, mesh_id, results,
                   processed_meshes, all_results, history, runLog>>

\* The process ends by an exception nothing catches.
draft_uncaught == End("aborted")

\* Lines 204-212: the data of the first location is aggregated again and
\* saved for this location.  These lines are outside the try block.
DraftReuse(fails) ==
    /\ pc = "draft_reuse"
    /\ IF fails
       THEN /\ draft_uncaught
            /\ UNCHANGED csv
       ELSE LET rows == draft_rows(draft_results(netcdf[processed_meshes[mesh_id]]),
                                   df.rows[i])
            IN  /\ csv' = Put(csv, df.rows[i]["No"], rows)
                /\ all_results' = all_results \o rows
                /\ draft_continue("ok")
                /\ UNCHANGED <<args, df, mesh_id, results, processed_meshes,
                               retrieveLog, flushCalls, runLog>>
    /\ UNCHANGED <<input, netcdf, combined, missing_file>>

\* The try block (lines 214-250): the artifact of the location is opened or
\* retrieved and written, aggregated and saved, and the mesh is registered;
\* an exception is caught and the loop continues.
DraftTry(result) ==
    /\ pc = "draft_try"
    /\ result = "fetch" => ~Exists(netcdf, df.rows[i]["No"])
    /\ LET id == df.rows[i]["No"]
           nc == IF Exists(netcdf, id) THEN netcdf ELSE Put(netcdf, id, GoodArtifact(args.year))
           rows == draft_rows(draft_results(nc[id]), df.rows[i])
       IN  CASE result = "ok" ->
                    /\ netcdf' = nc
                    /\ csv' = Put(csv, id, rows)
                    /\ all_results' = all_results \o rows
                    /\ processed_meshes' = Put(processed_meshes, mesh_id, id)
              [] result = "fetch" ->
                    UNCHANGED <<netcdf, csv, all_results, processed_meshes>>
              [] result = "write" ->
                    /\ netcdf' = nc
                    /\ UNCHANGED <<csv, all_results, processed_meshes>>
    /\ draft_continue(result)
    /\ UNCHANGED <<input, combined, missing_file, args, df, mesh_id, results,
                   retrieveLog, flushCalls, runLog>>

\* Lines 259-263: the aggregated CSV is written, or its write fails.
DraftAggregate(fails) ==
    /\ pc = "draft_row"
    /\ i > Len(df.rows)
    /\ IF fails
       THEN /\ End("error")
            /\ UNCHANGED combined
       ELSE /\ combined' = Put(combined, args.year, all_results)
            /\ End("done")
    /\ UNCHANGED <<input, netcdf, csv, missing_file>>

NextDraft ==
    \/ DraftStart
    \/ DraftRow
    \/ \E ok \in BOOLEAN : DraftCopy(ok)
    \/ \E f \in BOOLEAN : DraftReuse(f)
    \/ \E r \in {"ok", "fetch", "write"} : DraftTry(r)
    \/ \E f \in BOOLEAN : DraftAggregate(f)

SpecDraft == InitDraft /\ [][NextDraft]_vars

(***************************************************************************)
(* Vocabulary of the properties                                            *)
(***************************************************************************)
LoopPcs == {"loop", "retrieve", "process", "save", "writing"}

Last(log) == log[Len(log)]

Canonical(table) ==
    /\ table.columns = CanonColumns
    /\ \A j \in 1..Len(table.rows) :
        IsNumber(table.rows[j]["lat1"]) /\ IsNumber(table.rows[j]["lon1"])

\* The rows of a table that have no point-scoped output.
NoFileRows(table, files) ==
    SelectSeq(table.rows, LAMBDA r : ~Exists(files, r["No"]))

\* The rows of the combined output of a year; none when the file does not exist.
CombinedRowSet(y) == IF Exists(combined, y) THEN Range(combined[y]) ELSE {}

\* What one uninterrupted run over a canonical table writes to the combined
\* output when every stage of every point succeeds.
FullRunCombined(table, y) ==
    CombinedRows(Flatten([j \in 1..Len(table.rows) |->
        BufferedRows(process_precipitation_data(GoodArtifact(y)), table.rows[j], y)]))

\* The grid cell of a point at the configured cell size: the index of the
\* nearest centroid on each axis.
Centroid(lat, lon) ==
    LET b == calculate_mesh_bounds(lat, lon)
    IN  <<RoundDiv(lat, b[1] - b[3]), RoundDiv(lon, b[4] - b[2])>>

SameCell(r1, r2) == Centroid(r1["lat1"], r1["lon1"]) = Centroid(r2["lat1"], r2["lon1"])

AnnualOf(rows) ==
    LET annual == SelectSeq(rows, LAMBDA r : r.Month = "Annual")
    IN  [j \in 1..Len(annual) |-> annual[j].Precip]

\* A first, uninterrupted default run of a canonical table with no failure
\* writes FullRunCombined.
FullRunWritesAll ==
    (/\ pc = "idle"
     /\ Len(runLog) = 1
     /\ Canonical(input)
     /\ input.rows # <<>>
     /\ ~runLog[1].resume /\ ~runLog[1].dry_run
     /\ runLog[1].end = "done" /\ ~runLog[1].failed)
    => CombinedRowSet(runLog[1].year) = Range(FullRunCombined(input, runLog[1].year))

C2_ResumeIdempotence ==
    (/\ pc = "idle"
     /\ Len(runLog) = 2
     /\ Canonical(input)
     /\ ~runLog[1].resume /\ ~runLog[1].dry_run
     /\ runLog[1].end = "killed" /\ ~runLog[1].failed /\ ~runLog[1].in_save
     /\ runLog[2].resume /\ ~runLog[2].dry_run
     /\ runLog[2].end \in {"done", "nothing"} /\ ~runLog[2].failed)
    => CombinedRowSet(runLog[2].year) = Range(FullRunCombined(input, runLog[2].year))

(***************************************************************************)
(* C3.  A point-scoped output is fully written or not visible: after a     *)
(* kill during save_results, every input point that                        *)
(* check_missing_locations counts as processed has an output of 13 rows.   *)
(***************************************************************************)
C3_AtomicPointOutput ==
    (/\ pc = "idle"
     /\ runLog # <<>>
     /\ Last(runLog).end = "killed"
     /\ Last(runLog).in_save
     /\ ~check_missing_raises(input, csv))
    => \A j \in 1..Len(input.rows) :
          input.rows[j] \notin Range(check_missing_locations(input, csv).rows)
             => /\ Exists(csv, input.rows[j]["No"])
                /\ Len(csv[input.rows[j]["No"]]) = Months + 1

(***************************************************************************)
(* C4.  get_mesh_id rounds to the nearest grid centroid: while a row is    *)
(* processed, every row of the work-set in the same 20 km cell has the     *)
(* same mesh id, and no retrieve is made for a row whose cell was already  *)
(* fetched for an earlier row.                                             *)
(***************************************************************************)
C4_GridRounding ==
    (pc \in {"retrieve", "process", "save", "writing"}) =>
        \A j \in 1..Len(df.rows) :
            (/\ ~get_mesh_id_raises(df.rows[j]["lat1"], df.rows[j]["lon1"])
             /\ SameCell(df.rows[j], df.rows[i]))
            => /\ get_mesh_id(df.rows[j]["lat1"], df.rows[j]["lon1"]) = mesh_id
               /\ (pc = "retrieve" /\ j < i) => outcome[j] # "ok"

(***************************************************************************)
(* C5.  Error isolation: every row before the loop position has been       *)
(* handled; when the loop is over every row has been handled and every row *)
(* whose stages succeeded has its 13-row output (unless a later row of the *)
(* same id failed while rewriting it); a run in which a row failed ends    *)
(* only after save_all_results was called, or by a kill.                   *)
(***************************************************************************)
C5_ErrorIsolation ==
    /\ pc \in LoopPcs =>
        /\ Len(outcome) = Len(df.rows)
        /\ \A j \in 1..Len(outcome) : j < i => outcome[j] # "pending"
    /\ (pc = "loop" /\ i > Len(df.rows)) =>
        \A j \in 1..Len(df.rows) :
            /\ outcome[j] # "pending"
            /\ (/\ outcome[j] = "ok"
                /\ \A k \in (j + 1)..Len(df.rows) :
                      df.rows[k]["No"] = df.rows[j]["No"] => outcome[k] # "write")
               => /\ Exists(csv, df.rows[j]["No"])
                  /\ Len(csv[df.rows[j]["No"]]) = Months + 1
                  /\ \A m \in 1..(Months + 1) :
                        csv[df.rows[j]["No"]][m].No = df.rows[j]["No"]
    /\ \A k \in 1..Len(runLog) :
        (runLog[k].failed /\ runLog[k].end # "killed") => runLog[k].flushes = 1

\* The loop is over; the first row failed while its output was written and the
\* second row was written.
C5_Witness ==
    /\ pc = "loop"
    /\ Len(df.rows) = 2
    /\ i = 3
    /\ outcome = <<"write", "ok">>
    /\ Exists(csv, df.rows[2]["No"])
    /\ Len(csv[df.rows[2]["No"]]) = Months + 1

(***************************************************************************)
(* C6.  Original claim: every run that returns normally has called         *)
(* save_all_results exactly once, also when the work-set is empty.         *)
(***************************************************************************)
C6_FlushAlwaysOnce ==
    \A k \in 1..Len(runLog) :
        (Canonical(input) /\ runLog[k].end \in {"done", "nothing"})
            => runLog[k].flushes = 1

\* C6 as amended: a run whose work-set is not empty and passes the header
\* check calls save_all_results exactly once, after the work-set is
\* exhausted, also when every point failed; a run whose work-set is empty
\* returns without calling it.
C6_FlushOnceAfterLoop ==
    /\ \A k \in 1..Len(runLog) :
        /\ runLog[k].end = "done" => runLog[k].flushes = 1
        /\ runLog[k].end = "nothing" => runLog[k].flushes = 0
    /\ pc \in LoopPcs => flushCalls = 0
    /\ pc = "flushing" => flushCalls = 1

\* A run in which every point failed returned after one call.
C6_Witness ==
    /\ Len(runLog) = 1
    /\ Len(input.rows) = 2
    /\ runLog[1].end = "done"
    /\ runLog[1].failed
    /\ runLog[1].flushes = 1
    /\ csv = <<>>
    /\ combined = <<>>

(***************************************************************************)
(* C7.  Round trip: after a run in which no point failed, every annual row *)
(* of the combined output equals the annual value of that point's          *)
(* point-scoped output.                                                    *)
(***************************************************************************)
C7_RoundTrip ==
    (/\ pc = "idle"
     /\ runLog # <<>>
     /\ Last(runLog).end = "done"
     /\ ~Last(runLog).failed)
    => \A r \in CombinedRowSet(Last(runLog).year) :
            (/\ r.Month = "Annual"
             /\ Exists(csv, r.No)
             /\ AnnualOf(csv[r.No]) # <<>>)
            => r.Precip = AnnualOf(csv[r.No])[1]

(***************************************************************************)
(* C8.  Header synonyms: a table whose headers are accepted synonyms is    *)
(* processed like the table with the headers No, lat1, lon1: a run that is *)
(* not killed and in which no point fails and no output write fails        *)
(* returns normally.                                                       *)
(***************************************************************************)
C8_HeaderSynonyms ==
    \A k \in 1..Len(runLog) :
        (/\ ~runLog[k].dry_run
         /\ ~validate_raises(input)
         /\ runLog[k].end # "killed"
         /\ ~runLog[k].failed
         /\ runLog[k].flushes = 0)
        => runLog[k].end \in {"done", "nothing"}

(***************************************************************************)
(* C9.  The run mode alone decides the work-set: when process_locations    *)
(* has chosen it, it is the whole input without --resume and the rows      *)
(* without a point-scoped output with --resume; the run returns at once    *)
(* when it is empty.                                                       *)
(***************************************************************************)
C9_ModeDecidesWorkSet ==
    [][(pc = "plan" /\ pc' # "plan" /\ ~(pc' = "idle" /\ Last(runLog').end = "killed")) =>
        LET workset == IF args.resume THEN NoFileRows(input, csv) ELSE input.rows
        IN  IF workset = <<>>
            THEN pc' = "idle" /\ Last(runLog').end = "nothing"
            ELSE pc' = "validate" /\ df'.rows = workset /\ df'.columns = input.columns
      ]_vars

\* A default run over a directory that already holds outputs works on the
\* whole input.
C9_Witness ==
    /\ pc = "validate"
    /\ ~args.resume
    /\ Len(input.rows) = 2
    /\ \E j \in 1..2 : Exists(csv, input.rows[j]["No"])
    /\ df.rows = input.rows

C11_MissingIffNoValidOutput ==
    (pc = "idle" /\ ~check_missing_raises(input, csv)) =>
        \A j \in 1..Len(input.rows) :
            (input.rows[j] \in Range(check_missing_locations(input, csv).rows))
                <=> ~(/\ Exists(csv, input.rows[j]["No"])
                      /\ Len(csv[input.rows[j]["No"]]) = Months + 1)

C13_FailedCellUnresolved ==
    (pc = "loop" /\ i > 1 /\ outcome[i - 1] = "fetch") =>
        LET m == get_mesh_id(df.rows[i - 1]["lat1"], df.rows[i - 1]["lon1"])
        IN  /\ m \notin DOMAIN processed_meshes
            /\ ~Exists(netcdf, output_file(m))

(***************************************************************************)
(* C14.  When the aggregation of a row has failed, no readable artifact    *)
(* without the variable 'tp' is left at the path of the row's cell, and    *)
(* processed_meshes holds no entry of the cell that leads to such a file   *)
(* or to no file.                                                          *)
(***************************************************************************)
C14_NoTpArtifactDiscarded ==
    (pc = "loop" /\ i > 1 /\ outcome[i - 1] = "process") =>
        LET m == get_mesh_id(df.rows[i - 1]["lat1"], df.rows[i - 1]["lon1"])
            lacksTp(f) == netcdf[f].readable /\ ~netcdf[f].hasTp
        IN  /\ Exists(netcdf, output_file(m)) => ~lacksTp(output_file(m))
            /\ m \in DOMAIN processed_meshes =>
                    /\ Exists(netcdf, processed_meshes[m])
                    /\ ~lacksTp(processed_meshes[m])

(***************************************************************************)
(* C15.  No partially written file is at an artifact path once the         *)
(* retrieve that wrote it has failed or the process has been killed, and   *)
(* the aggregation never reads a partially written artifact.               *)
(***************************************************************************)
C15_NoPartialArtifact ==
    /\ \A f \in DOMAIN netcdf : netcdf[f].readable
    /\ pc = "process" => netcdf[processed_meshes[mesh_id]].readable

(***************************************************************************)
(* C16.  A failure to write a point-scoped output ends the loop: the run   *)
(* is never found going on with a row marked as failed in its write; and a *)
(* row whose write failed is among the rows check_missing_locations        *)
(* returns.                                                                *)
(***************************************************************************)
C16_WriteFailureEscalated ==
    \A j \in 1..Len(outcome) :
        outcome[j] = "write" =>
            /\ pc \notin LoopPcs \cup {"flushing"}
            /\ df.rows[j] \in Range(check_missing_locations(input, csv).rows)

C18_MissingColumnNoSideEffect ==
    validate_raises(input) =>
        /\ retrieveLog = <<>>
        /\ netcdf = <<>>
        /\ csv = <<>>
        /\ combined = <<>>
        /\ missing_file = NoFile
        /\ \A k \in 1..Len(runLog) :
              ~runLog[k].dry_run => runLog[k].end \in {"error", "killed"}

(***************************************************************************)
(* C19.  In every point-scoped output that holds rows, the last row is the *)
(* only 'Annual' row and its value is the sum of the values of the monthly *)
(* rows of the file; the result handed to save_results has the same        *)
(* property.                                                               *)
(***************************************************************************)
C19_AnnualIsSumOfMonthly ==
    /\ \A n \in DOMAIN csv :
          csv[n] # <<>> =>
            LET rows == csv[n]
                monthly == SelectSeq(rows, IsMonthly)
            IN  /\ Len(monthly) = Len(rows) - 1
                /\ rows[Len(rows)].Month = "Annual"
                /\ rows[Len(rows)].Precip =
                      SumSeq([m \in 1..Len(monthly) |-> monthly[m].Precip])
    /\ pc \in {"save", "writing"} => results.annual = SumSeq(results.monthly)

\* Two outputs were written, one from a full-year artifact and one from a
\* shorter one, each with a positive annual value.
C19_Witness ==
    \E n1, n2 \in DOMAIN csv :
        /\ Len(csv[n1]) = Months + 1
        /\ Len(csv[n2]) = ShortMonths + 1
        /\ AnnualOf(csv[n1])[1] > 0
        /\ AnnualOf(csv[n2])[1] > 0

(***************************************************************************)
(* C20.  Every point-scoped output that save_results has written to the    *)
(* end has exactly 13 rows: the months 1 to 12 in this order, then one     *)
(* 'Annual' row.                                                           *)
(***************************************************************************)
C20_ThirteenRows ==
    \A n \in DOMAIN csv :
        csv[n] # <<>> =>
            /\ Len(csv[n]) = Months + 1
            /\ \A m \in 1..Months : csv[n][m].Month = MonthName[m]
            /\ csv[n][Months + 1].Month = "Annual"

(***************************************************************************)
(* C21.  missing_locations.csv is written in dry-run mode only: when the   *)
(* file exists, a dry run is running or has run.                           *)
(***************************************************************************)
C21_ReportOnlyInDryRun ==
    missing_file # NoFile =>
        \/ pc # "idle" /\ args.dry_run
        \/ \E k \in 1..Len(runLog) : runLog[k].dry_run

(***************************************************************************)
(* C22.  A dry-run invocation only calls check_missing_locations: it makes *)
(* no retrieve, every step of it leaves the artifacts, the point-scoped    *)
(* outputs and the combined outputs as they are, and it ends after the     *)
(* call.                                                                   *)
(***************************************************************************)
C22_DryRunReadOnly ==
    [][(pc # "idle" /\ args.dry_run) =>
        /\ pc = "check"
        /\ pc' = "idle"
        /\ Last(runLog').end \in {"dry_run", "error", "killed"}
        /\ retrieveLog = <<>>
        /\ netcdf' = netcdf
        /\ csv' = csv
        /\ combined' = combined
      ]_vars

\* A dry run has ended over a directory that holds an artifact, a
\* point-scoped output and a combined output.
C22_Witness ==
    /\ pc = "idle"
    /\ runLog # <<>>
    /\ Last(runLog).end = "dry_run"
    /\ netcdf # <<>>
    /\ \E n \in DOMAIN csv : Len(csv[n]) = Months + 1
    /\ combined # <<>>

(***************************************************************************)
(* C23.  Every retrieve returning, process_locations takes the rows of the *)
(* work-set one after the other in their order, each exactly once and each *)
(* through mesh id, fetch or reuse, aggregation and write in this order;   *)
(* it leaves the loop only when the work-set is exhausted (or when         *)
(* killed); and every run ends.                                            *)
(***************************************************************************)
C23_RowStep ==
    (pc \in LoopPcs /\ pc' \in LoopPcs) =>
        /\ df' = df
        /\ i <= Len(df.rows)
        /\ \/ /\ i' = i
              /\ outcome' = outcome
              /\ pc' # "loop"
           \/ /\ i' = i + 1
              /\ pc' = "loop"
              /\ outcome[i] = "pending"
              /\ outcome'[i] # "pending"
              /\ outcome'[i] = "ok" => pc = "writing"
              /\ \A j \in 1..Len(outcome) : j # i => outcome'[j] = outcome[j]
        /\ pc = "loop" => pc' \in {"retrieve", "process", "loop"}
        /\ pc = "retrieve" => pc' \in {"process", "loop"}
        /\ pc = "process" => pc' \in {"save", "loop"}
        /\ pc = "save" => pc' \in {"writing", "loop"}
        /\ pc = "writing" => pc' = "loop"

C23_LoopExit ==
    (/\ pc \in LoopPcs
     /\ pc' \notin LoopPcs
     /\ ~(pc' = "idle" /\ Last(runLog').end = "killed")) =>
        /\ pc = "loop"
        /\ i = Len(df.rows) + 1
        /\ \A j \in 1..Len(outcome) : outcome[j] # "pending"

C23_SequentialAndTerminates ==
    /\ [][C23_RowStep /\ C23_LoopExit]_vars
    /\ (pc # "idle") ~> (pc = "idle")

\* A run over two points has gone through both and has ended.
C23_Witness ==
    /\ pc = "idle"
    /\ Len(runLog) = 1
    /\ runLog[1].end = "done"
    /\ ~runLog[1].failed
    /\ Len(input.rows) = 2
    /\ input.rows[1]["No"] # input.rows[2]["No"]
    /\ \A j \in 1..2 : Len(csv[input.rows[j]["No"]]) = Months + 1

C25_ArtifactOfTargetYear ==
    pc = "process" => netcdf[processed_meshes[mesh_id]].year = args.year

(***************************************************************************)
(* C26.  A resume run for target year Y treats a point as processed only   *)
(* if a point-scoped result for year Y was persisted for it: when the      *)
(* report of a resume run leaves out a point whose output is a complete    *)
(* result of some year, that year is Y.                                    *)
(***************************************************************************)
C26_ResumeSkipsOnlyThisYear ==
    (pc = "plan" /\ args.resume) =>
        \A j \in 1..Len(input.rows) :
            LET row == input.rows[j]
                f == location_file(row)
                ResultOf(y) == PointRows(process_precipitation_data(GoodArtifact(y)), row)
            IN  (/\ \A k \in 1..Len(df.rows) : df.rows[k] # row
                 /\ Exists(csv, f)
                 /\ \E y \in Years : csv[f] = ResultOf(y))
                => csv[f] = ResultOf(args.year)

(***************************************************************************)
(* C27.  The combined buffer never holds rows of a point whose point-      *)
(* scoped write failed: between two rows of the loop, every buffered row   *)
(* is of a point whose output was written in this run.                     *)
(***************************************************************************)
C27_BufferedOnlyWritten ==
    pc = "loop" =>
        \A n \in 1..Len(all_results) :
            \E j \in 1..Len(outcome) :
                /\ outcome[j] = "ok"
                /\ df.rows[j]["No"] = all_results[n].No

(***************************************************************************)
(* C28.  The checkpoint only grows: no step of a default, resume or        *)
(* dry-run invocation removes a point-scoped output, and the set of points *)
(* check_missing_locations finds processed never loses a member.           *)
(***************************************************************************)
C28_CheckpointGrows ==
    [][/\ DOMAIN csv \subseteq DOMAIN csv'
       /\ processed_ids(input, csv) \subseteq processed_ids(input, csv')]_vars

\* Two points have outputs, and a later default run has written them again.
C28_Witness ==
    /\ pc = "idle"
    /\ Len(runLog) = 2
    /\ runLog[1].end = "done" /\ ~runLog[1].dry_run
    /\ runLog[2].end = "done" /\ ~runLog[2].resume /\ ~runLog[2].failed
    /\ Cardinality(processed_ids(input, csv)) = 2

(***************************************************************************)
(* C29.  When check_missing_locations has returned, missing_locations.csv, *)
(* if it exists, lists exactly the missing rows the call returned; it      *)
(* lists no point once all points are processed.                           *)
(***************************************************************************)
C29_ReportIsReturnedSet ==
    (pc = "plan" /\ missing_file # NoFile) => missing_file = df.rows

====
